---- MODULE Spec2Model ----
(***************************************************************************)
(* The two Streamlit cost calculators of the repository,                   *)
(*   src/machine_cost_app.py   (pneumatics + safety dump + servos) and     *)
(*   src/pneumatic_cost_app.py (pneumatic cylinders only),                 *)
(* as state machines.  A Streamlit script is re-executed from top to       *)
(* bottom on every widget interaction; what survives between two runs is   *)
(* st.session_state (the two edited tables) and the widgets' values.       *)
(* Every action below is one user interaction followed by the whole        *)
(* rerun of the script: widgets, calculation and display.                  *)
(*                                                                         *)
(* Arithmetic.  The scripts compute with Python floats.  The model         *)
(* computes the same expressions exactly: a value is q + pi * math.pi      *)
(* with q and pi decimal numbers of unbounded size, so that the products   *)
(* of the defaults (about 1e20 in the last decimal place) do not overflow  *)
(* TLC's 32-bit integers.  The rounding of IEEE doubles (one unit in the   *)
(* last place per operation) is not modelled.                              *)
(***************************************************************************)
EXTENDS Integers, Sequences, FiniteSets, TLC

(***************************************************************************)
(* Natural numbers of unbounded size: little-endian sequences of base      *)
(* 10000 digits without leading zeros; <<>> is 0.  The arithmetic is       *)
(* written as functions: a function is applied to values.                  *)
(***************************************************************************)
Digits == Seq(0..9999)

NatOf[n \in Nat] ==
    IF n = 0 THEN <<>> ELSE <<n % 10000>> \o NatOf[n \div 10000]

NatAddC[a \in Digits, b \in Digits, c \in 0..1] ==
    IF a = <<>> /\ b = <<>>
    THEN (IF c = 0 THEN <<>> ELSE <<c>>)
    ELSE LET x == IF a = <<>> THEN 0 ELSE Head(a)
             y == IF b = <<>> THEN 0 ELSE Head(b)
             t == x + y + c
         IN  <<t % 10000>> \o NatAddC[IF a = <<>> THEN a ELSE Tail(a),
                                      IF b = <<>> THEN b ELSE Tail(b),
                                      t \div 10000]

NatAdd[a \in Digits, b \in Digits] == NatAddC[a, b, 0]

\* a * k + c for a digit k < 10000
NatMulDigitC[a \in Digits, k \in 0..9999, c \in 0..9999] ==
    IF a = <<>>
    THEN NatOf[c]
    ELSE LET t == Head(a) * k + c
         IN  <<t % 10000>> \o NatMulDigitC[Tail(a), k, t \div 10000]

NatMul[a \in Digits, b \in Digits] ==
    IF a = <<>> \/ b = <<>>
    THEN <<>>
    ELSE LET rest == NatMul[a, Tail(b)]
             low  == IF Head(b) = 0 THEN <<>> ELSE NatMulDigitC[a, Head(b), 0]
         IN  NatAdd[low, IF rest = <<>> THEN rest ELSE <<0>> \o rest]

\* -1, 0, 1 as a < b, a = b, a > b
NatCmpSameLen[a \in Digits, b \in Digits] ==
    IF a = <<>>
    THEN 0
    ELSE LET n == Len(a)
         IN  IF a[n] < b[n] THEN -1
             ELSE IF a[n] > b[n] THEN 1
             ELSE NatCmpSameLen[SubSeq(a, 1, n - 1), SubSeq(b, 1, n - 1)]

NatCmp[a \in Digits, b \in Digits] ==
    IF Len(a) < Len(b) THEN -1
    ELSE IF Len(a) > Len(b) THEN 1
    ELSE NatCmpSameLen[a, b]

NatStrip[a \in Digits] ==
    IF a = <<>> \/ a[Len(a)] # 0 THEN a ELSE NatStrip[SubSeq(a, 1, Len(a) - 1)]

\* the digits of a - b - c for a >= b + c
NatSubB[a \in Digits, b \in Digits, c \in 0..1] ==
    IF a = <<>>
    THEN <<>>
    ELSE LET y == IF b = <<>> THEN 0 ELSE Head(b)
             t == Head(a) - y - c
         IN  <<(t + 10000) % 10000>>
                 \o NatSubB[Tail(a), IF b = <<>> THEN b ELSE Tail(b),
                            IF t < 0 THEN 1 ELSE 0]

NatSub[a \in Digits, b \in Digits] == NatStrip[NatSubB[a, b, 0]]

(***************************************************************************)
(* Integers of unbounded size: sign and magnitude, 0 never negative.       *)
(***************************************************************************)
BigInt == [neg : BOOLEAN, mag : Digits]

IntZero == [neg |-> FALSE, mag |-> <<>>]

IntOf(i) == [neg |-> i < 0, mag |-> NatOf[IF i < 0 THEN -i ELSE i]]

IntAdd[x \in BigInt, y \in BigInt] ==
    IF x.neg = y.neg
    THEN [neg |-> x.neg, mag |-> NatAdd[x.mag, y.mag]]
    ELSE LET c == NatCmp[x.mag, y.mag]
         IN  IF c = 0 THEN IntZero
             ELSE IF c > 0 THEN [neg |-> x.neg, mag |-> NatSub[x.mag, y.mag]]
             ELSE [neg |-> y.neg, mag |-> NatSub[y.mag, x.mag]]

IntMul[x \in BigInt, y \in BigInt] ==
    IF x.mag = <<>> \/ y.mag = <<>>
    THEN IntZero
    ELSE [neg |-> x.neg # y.neg, mag |-> NatMul[x.mag, y.mag]]

IntLess[x \in BigInt, y \in BigInt] ==
    IF x.neg # y.neg THEN x.neg
    ELSE IF x.neg THEN NatCmp[x.mag, y.mag] > 0
    ELSE NatCmp[x.mag, y.mag] < 0

\* x * 10^d
IntShift[x \in BigInt, d \in Nat] ==
    IF d = 0 \/ x.mag = <<>> THEN x
    ELSE IF d >= 4 THEN IntShift[[x EXCEPT !.mag = <<0>> \o @], d - 4]
    ELSE IntShift[IntMul[x, IntOf(10)], d - 1]

(***************************************************************************)
(* A Python float of the scripts, exactly: (q + pi * math.pi) / 10^e.      *)
(* Every float the scripts compute is a sum of products of decimal inputs  *)
(* in which math.pi occurs at most once per product.                       *)
(***************************************************************************)
Float == [q : BigInt, pi : BigInt, e : Nat]

Dec(i, places) == [q |-> IntOf(i), pi |-> IntZero, e |-> places]

Num(i) == Dec(i, 0)

math_pi == [q |-> IntZero, pi |-> IntOf(1), e |-> 0]

Mul[x \in Float, y \in Float] ==
    [q  |-> IntMul[x.q, y.q],
     pi |-> IntAdd[IntMul[x.q, y.pi], IntMul[x.pi, y.q]],
     e  |-> x.e + y.e]

Add[x \in Float, y \in Float] ==
    LET e == IF x.e > y.e THEN x.e ELSE y.e
    IN  [q  |-> IntAdd[IntShift[x.q, e - x.e], IntShift[y.q, e - y.e]],
         pi |-> IntAdd[IntShift[x.pi, e - x.e], IntShift[y.pi, e - y.e]],
         e  |-> e]

\* x / 1000 and x / 100: the decimal point moves
Div1000(x) == [x EXCEPT !.e = @ + 3]

Div100(x) == [x EXCEPT !.e = @ + 2]

\* x / 2 = 5 x / 10
Div2(x) == [Mul[x, Num(5)] EXCEPT !.e = @ + 1]

\* x == y as numbers (math.pi is irrational: both parts agree)
Eq(x, y) ==
    LET e == IF x.e > y.e THEN x.e ELSE y.e
    IN  /\ IntShift[x.q, e - x.e] = IntShift[y.q, e - y.e]
        /\ IntShift[x.pi, e - x.e] = IntShift[y.pi, e - y.e]

IsZero(x) == x.q = IntZero /\ x.pi = IntZero

\* x > 0, x >= 0, x < y for values whose two parts do not differ in sign
\* (all values the scripts compute, and all values of the tables)
Positive(x) ==
    /\ ~x.q.neg /\ ~x.pi.neg
    /\ ~IsZero(x)

NonNegative(x) == ~x.q.neg /\ ~x.pi.neg

Less(x, y) ==
    LET e == IF x.e > y.e THEN x.e ELSE y.e
        xq == IntShift[x.q, e - x.e]
        yq == IntShift[y.q, e - y.e]
        xp == IntShift[x.pi, e - x.e]
        yp == IntShift[y.pi, e - y.e]
    IN  /\ ~IntLess[yq, xq]
        /\ ~IntLess[yp, xp]
        /\ (IntLess[xq, yq] \/ IntLess[xp, yp])

(***************************************************************************)
(* Bounds and input values.  A table has at most MaxRows rows.  The value  *)
(* sets are values the widgets can deliver (machine_cost_app.py:38-67,     *)
(* pneumatic_cost_app.py:34-52): each holds the widget's default.  Floats  *)
(* are written Dec(digits, decimal places): Dec(12, 2) is 0.12.            *)
(***************************************************************************)
MaxRows == 2

Sessions == {1, 2}

HoursPerDayValues == {8, 24}

DaysPerWeekValues == {5, 7}

ElectricityCostValues == {Dec(1, 2), Dec(12, 2), Dec(100, 2)}

CycleRateValues == {5, 20, 120}

PressureBarValues == {Dec(10, 1), Dec(60, 1), Dec(65, 1)}

CompressorEfficiencyValues == {Dec(5, 2), Dec(15, 2)}

ReceiverLitersValues == {0, 10, 1000}

DumpsPerHourValues == {0, 4, 60}

RandomEvents == "Based on random safety events per hour"

EveryCycle == "After every machine cycle"

\* A row of the cylinder table: "Quantity", "Bore (mm)", "Stroke (mm)".
\* The NumberColumns have no minimum: zero and negative cells can be typed.
CylinderRow(qty, bore_mm, stroke_mm) ==
    [Quantity |-> qty, Bore_mm |-> bore_mm, Stroke_mm |-> stroke_mm]

CylinderRowChoices ==
    { CylinderRow(2, 50, 200),  CylinderRow(0, 50, 200),
      CylinderRow(2, -50, 200), CylinderRow(2, 50, 0),
      CylinderRow(-1, 50, -200) }

\* A row of the servo table: "Quantity", "Motor Power (Watts)",
\* "Avg. Power Utilization (%)"; the last column is limited to 0..100.
ServoRow(qty, power_w, util_pct) ==
    [Quantity |-> qty, Motor_Power_Watts |-> power_w,
     Avg_Power_Utilization_pct |-> util_pct]

ServoRowChoices ==
    { ServoRow(1, 750, 40),  ServoRow(0, 750, 40), ServoRow(-1, 750, 40),
      ServoRow(2, -750, 40), ServoRow(3, 750, 0) }

\* The rows the specifications that vary both tables choose from
FewCylinderRows == { CylinderRow(-1, 50, 200), CylinderRow(2, -50, 0) }

FewServoRows == { ServoRow(-1, 750, 40), ServoRow(1, 0, 40) }

\* A name the script has not assigned (a later read raises NameError) is
\* <<>>; an assigned one is <<value>>.
Unbound == <<>>

Bound(v) == <<v>>

(***************************************************************************)
(* machine_cost_app.py: the calculation                                    *)
(***************************************************************************)
\* a faulty line 84 that does not look at the quantity
CylinderRowValidAnyQuantity(qty, bore_mm, stroke_mm) ==
    bore_mm > 0 /\ stroke_mm > 0

\* a faulty line 84 that does not look at the bore
CylinderRowValidAnyBore(qty, bore_mm, stroke_mm) ==
    qty > 0 /\ stroke_mm > 0

\* line 84: if qty > 0 and bore_mm > 0 and stroke_mm > 0
CylinderRowValid(qty, bore_mm, stroke_mm) ==
    qty > 0 /\ bore_mm > 0 /\ stroke_mm > 0

\* lines 85-87: bore_m, stroke_m, cylinder_volume_m3, free_air_per_cycle
cylinder_volume_m3(bore_mm, stroke_mm) ==
    Mul[Mul[math_pi, Mul[Div2(Div1000(Num(bore_mm))), Div2(Div1000(Num(bore_mm)))]],
        Div1000(Num(stroke_mm))]

\* a faulty line 87: the air is not compressed
FreeAirPerCycleUncompressed(bore_mm, stroke_mm, pressure_bar) ==
    Mul[Num(2), cylinder_volume_m3(bore_mm, stroke_mm)]

FreeAirPerCycle(bore_mm, stroke_mm, pressure_bar) ==
    Mul[Mul[Num(2), cylinder_volume_m3(bore_mm, stroke_mm)],
        Add[pressure_bar, Num(1)]]

\* the rows before the last one
Front(rows) == SubSeq(rows, 1, Len(rows) - 1)

Last(rows) == rows[Len(rows)]

\* lines 80-88: the loop over the rows, in table order
RECURSIVE TotalFreeAirPerCycle(_, _)
TotalFreeAirPerCycle(rows, pressure_bar) ==
    IF rows = <<>>
    THEN Num(0)
    ELSE IF CylinderRowValid(Last(rows).Quantity, Last(rows).Bore_mm,
                             Last(rows).Stroke_mm)
    THEN Add[TotalFreeAirPerCycle(Front(rows), pressure_bar),
             Mul[FreeAirPerCycle(Last(rows).Bore_mm, Last(rows).Stroke_mm,
                                 pressure_bar),
                 Num(Last(rows).Quantity)]]
    ELSE TotalFreeAirPerCycle(Front(rows), pressure_bar)

\* lines 79-92: total_actuation_air_per_hour_m3 (line 90),
\* kwh_per_hour_pneumatic_actuation (line 91), the cost (line 92)
PneumaticActuationCalculation(cylinder_df, pressure_bar, cycle_rate, compressor_efficiency, electricity_cost) ==
    Mul[Mul[Mul[Mul[TotalFreeAirPerCycle(cylinder_df, pressure_bar),
                    Num(cycle_rate)],
                Num(60)],
            compressor_efficiency],
        electricity_cost]

\* a faulty line 96 that reads receiver_liters before it looks at dump_air
DumpConditionEager(dump_air, receiver_liters) ==
    IF receiver_liters = Unbound THEN "NameError"
    ELSE IF dump_air /\ receiver_liters[1] > 0 THEN "True"
    ELSE "False"

\* line 96, `dump_air and receiver_liters > 0`: the right operand is read
\* only when dump_air is true; lines 63-69 bind receiver_liters only then.
DumpCondition(dump_air, receiver_liters) ==
    IF ~dump_air THEN "False"
    ELSE IF receiver_liters = Unbound THEN "NameError"
    ELSE IF receiver_liters[1] > 0 THEN "True"
    ELSE "False"

\* faulty lines 99-103: the number input decides in both modes
DumpsPerHourAsEntered(dump_trigger_method, dumps_per_hour, cycle_rate) ==
    Num(dumps_per_hour[1])

\* lines 99-103: the number of dumps per hour the cost is computed from
DumpsPerHourEffective(dump_trigger_method, dumps_per_hour, cycle_rate) ==
    IF dump_trigger_method = Bound(RandomEvents)
    THEN Num(dumps_per_hour[1])
    ELSE Mul[Num(cycle_rate), Num(60)]

\* lines 97-105, entered when the condition of line 96 is true:
\* receiver_m3 (line 97), free_air_per_dump_m3 (line 98),
\* total_waste_air_per_hour_m3 (lines 100, 103), kwh_per_hour_pneumatic_waste
\* (line 104), the cost (line 105)
WasteCost(receiver_liters, dump_trigger_method, dumps_per_hour, pressure_bar, cycle_rate, compressor_efficiency, electricity_cost) ==
    Mul[Mul[Mul[Mul[Div1000(Num(receiver_liters[1])), Add[pressure_bar, Num(1)]],
                DumpsPerHourEffective(dump_trigger_method, dumps_per_hour,
                                      cycle_rate)],
            compressor_efficiency],
        electricity_cost]

\* lines 94-105: [raised, cost]
PneumaticWasteCalculation(dump_air, receiver_liters, dump_trigger_method, dumps_per_hour, pressure_bar, cycle_rate, compressor_efficiency, electricity_cost) ==
    IF DumpCondition(dump_air, receiver_liters) = "NameError"
    THEN [raised |-> TRUE, cost |-> Num(0)]
    ELSE IF DumpCondition(dump_air, receiver_liters) = "False"
    THEN [raised |-> FALSE, cost |-> Num(0)]
    ELSE [raised |-> FALSE,
          cost |-> WasteCost(receiver_liters, dump_trigger_method,
                             dumps_per_hour, pressure_bar, cycle_rate,
                             compressor_efficiency, electricity_cost)]

\* a faulty line 112 that does not look at the motor power
ServoRowValidAnyPower(qty, power_w, util_pct) ==
    qty > 0 /\ util_pct >= 0

\* line 112: if qty > 0 and power_w > 0 and util_pct >= 0
ServoRowValid(qty, power_w, util_pct) ==
    qty > 0 /\ power_w > 0 /\ util_pct >= 0

\* line 113
AvgPowerPerMotor(power_w, util_pct) ==
    Mul[Num(power_w), Div100(Num(util_pct))]

\* lines 108-114
RECURSIVE TotalServoPowerWatts(_)
TotalServoPowerWatts(rows) ==
    IF rows = <<>>
    THEN Num(0)
    ELSE IF ServoRowValid(Last(rows).Quantity, Last(rows).Motor_Power_Watts,
                          Last(rows).Avg_Power_Utilization_pct)
    THEN Add[TotalServoPowerWatts(Front(rows)),
             Mul[AvgPowerPerMotor(Last(rows).Motor_Power_Watts,
                                  Last(rows).Avg_Power_Utilization_pct),
                 Num(Last(rows).Quantity)]]
    ELSE TotalServoPowerWatts(Front(rows))

\* lines 107-117: kwh_per_hour_servo (line 116), the cost (line 117)
ServoCalculation(servo_df, electricity_cost) ==
    Mul[Div1000(TotalServoPowerWatts(servo_df)), electricity_cost]

\* line 120
CostPerHourTotal(actuation, waste, servo) == Add[Add[actuation, waste], servo]

\* lines 121-123 from the value of line 120
TotalsOf(cost_per_hour_total, hours_per_day, days_per_week) ==
    [cost_per_hour_total |-> cost_per_hour_total,
     cost_per_day_total  |-> Mul[cost_per_hour_total, Num(hours_per_day)],
     cost_per_week_total |->
         Mul[Mul[cost_per_hour_total, Num(hours_per_day)], Num(days_per_week)],
     cost_per_year_total |->
         Mul[Mul[Mul[cost_per_hour_total, Num(hours_per_day)], Num(days_per_week)],
             Num(52)]]

\* a faulty line 120: the hourly total without the cost of the dumped air
TotalCalculationWithoutWaste(actuation, waste, servo, hours_per_day, days_per_week) ==
    TotalsOf(Add[actuation, servo], hours_per_day, days_per_week)

\* lines 119-123
TotalCalculation(actuation, waste, servo, hours_per_day, days_per_week) ==
    TotalsOf(CostPerHourTotal(actuation, waste, servo), hours_per_day, days_per_week)

\* a faulty column of lines 162-164: the annual row without days_per_week
BreakdownColumnWithoutDays(cost_per_hour, hours_per_day, days_per_week) ==
    << cost_per_hour,
       Mul[cost_per_hour, Num(hours_per_day)],
       Mul[Mul[cost_per_hour, Num(hours_per_day)], Num(days_per_week)],
       Mul[Mul[cost_per_hour, Num(hours_per_day)], Num(52)] >>

\* lines 162-164: one subsystem's column, rows Hourly, Daily, Weekly, Annual
BreakdownColumn(cost_per_hour, hours_per_day, days_per_week) ==
    << cost_per_hour,
       Mul[cost_per_hour, Num(hours_per_day)],
       Mul[Mul[cost_per_hour, Num(hours_per_day)], Num(days_per_week)],
       Mul[Mul[Mul[cost_per_hour, Num(hours_per_day)], Num(days_per_week)], Num(52)] >>

\* lines 161-166
BreakdownData(actuation, waste, servo, totals, hours_per_day, days_per_week) ==
    [Pneumatic_Actuation |-> BreakdownColumn(actuation, hours_per_day, days_per_week),
     Pneumatic_Waste     |-> BreakdownColumn(waste, hours_per_day, days_per_week),
     Servos              |-> BreakdownColumn(servo, hours_per_day, days_per_week),
     Total               |-> << totals.cost_per_hour_total, totals.cost_per_day_total,
                                totals.cost_per_week_total, totals.cost_per_year_total >>]

\* lines 129-131: `not any([...])`, a float is falsy exactly when it is 0
DisplayResults(actuation, waste, servo) ==
    IF IsZero(actuation) /\ IsZero(waste) /\ IsZero(servo)
    THEN "warning"
    ELSE "results"

\* lines 119-135: the names the script has bound when it ends, and what the
\* page shows; an exception ends the run at line 96
MachineRun(actuation, pw, servo, hours_per_day, days_per_week) ==
    IF pw.raised
    THEN [raised |-> TRUE, shown |-> "exception",
          cost_per_hour_pneumatic_actuation |-> actuation]
    ELSE [raised |-> FALSE,
          cost_per_hour_pneumatic_actuation |-> actuation,
          cost_per_hour_pneumatic_waste |-> pw.cost,
          cost_per_hour_servo |-> servo,
          shown |-> DisplayResults(actuation, pw.cost, servo)]
         @@ TotalCalculation(actuation, pw.cost, servo, hours_per_day, days_per_week)

\* lines 77-135: one run of the calculation and the display
MachineCalculation(w, edited_cylinder_df, edited_servo_df) ==
    MachineRun(PneumaticActuationCalculation(edited_cylinder_df, w.pressure_bar,
                   w.cycle_rate, w.compressor_efficiency, w.electricity_cost),
               PneumaticWasteCalculation(w.dump_air, w.receiver_liters,
                   w.dump_trigger_method, w.dumps_per_hour, w.pressure_bar,
                   w.cycle_rate, w.compressor_efficiency, w.electricity_cost),
               ServoCalculation(edited_servo_df, w.electricity_cost),
               w.hours_per_day, w.days_per_week)

(***************************************************************************)
(* pneumatic_cost_app.py: the calculation                                  *)
(***************************************************************************)
\* line 79: if qty > 0 and bore_mm > 0 and stroke_mm > 0
PnRowValid(qty, bore_mm, stroke_mm) ==
    qty > 0 /\ bore_mm > 0 /\ stroke_mm > 0

\* lines 81-85: bore_m, stroke_m, cylinder_area_m2
PnCylinderAreaM2(bore_mm) ==
    Mul[math_pi, Mul[Div2(Div1000(Num(bore_mm))), Div2(Div1000(Num(bore_mm)))]]

\* lines 86-92: cylinder_volume_m3, volume_per_cycle_m3,
\* free_air_per_cycle_m3_single
PnFreeAirPerCycleSingle(bore_mm, stroke_mm, pressure_bar) ==
    Mul[Mul[Num(2), Mul[PnCylinderAreaM2(bore_mm), Div1000(Num(stroke_mm))]],
        Add[pressure_bar, Num(1)]]

\* lines 69-95: the loop over edited_df.iterrows()
RECURSIVE PnTotalFreeAirPerCycle(_, _)
PnTotalFreeAirPerCycle(rows, pressure_bar) ==
    IF rows = <<>>
    THEN Num(0)
    ELSE IF PnRowValid(Last(rows).Quantity, Last(rows).Bore_mm, Last(rows).Stroke_mm)
    THEN Add[PnTotalFreeAirPerCycle(Front(rows), pressure_bar),
             Mul[PnFreeAirPerCycleSingle(Last(rows).Bore_mm, Last(rows).Stroke_mm,
                                         pressure_bar),
                 Num(Last(rows).Quantity)]]
    ELSE PnTotalFreeAirPerCycle(Front(rows), pressure_bar)

\* lines 97-105: total_free_air_per_minute_m3, total_free_air_per_hour_m3,
\* kwh_per_hour, cost_per_hour
PnCostPerHour(edited_df, pressure_bar, cycle_rate, compressor_efficiency, electricity_cost) ==
    Mul[Mul[Mul[Mul[PnTotalFreeAirPerCycle(edited_df, pressure_bar),
                    Num(cycle_rate)],
                Num(60)],
            compressor_efficiency],
        electricity_cost]

\* line 114: edited_df["Quantity"].sum()
RECURSIVE QuantitySum(_)
QuantitySum(rows) ==
    IF rows = <<>> THEN 0 ELSE Head(rows).Quantity + QuantitySum(Tail(rows))

\* lines 114-116: if edited_df.empty or edited_df["Quantity"].sum() == 0
PnDisplayResults(edited_df) ==
    IF edited_df = <<>> \/ QuantitySum(edited_df) = 0
    THEN "warning"
    ELSE "results"

\* lines 105-116: the costs of the four periods and what the page shows
PnRun(cost_per_hour, hours_per_day, days_per_week, shown) ==
    [raised |-> FALSE,
     cost_per_hour |-> cost_per_hour,
     cost_per_day  |-> Mul[cost_per_hour, Num(hours_per_day)],
     cost_per_week |-> Mul[Mul[cost_per_hour, Num(hours_per_day)],
                           Num(days_per_week)],
     cost_per_year |-> Mul[Mul[Mul[cost_per_hour, Num(hours_per_day)],
                               Num(days_per_week)],
                           Num(52)],
     shown |-> shown]

\* lines 67-116: one run of the calculation and the display
PneumaticCalculation(w, edited_df) ==
    PnRun(PnCostPerHour(edited_df, w.pressure_bar, w.cycle_rate,
                        w.compressor_efficiency, w.electricity_cost),
          w.hours_per_day, w.days_per_week, PnDisplayResults(edited_df))

(***************************************************************************)
(* One run of a script.  st.session_state keeps the tables between runs    *)
(* (machine_cost_app.py:14-27, 58-59, 74-75; pneumatic_cost_app.py:14-20,  *)
(* 59-65): st.data_editor shows the remembered table, returns it with the  *)
(* user's edit applied, and the script stores the result back.             *)
(***************************************************************************)
Machine == "machine_cost_app"

Pneumatic == "pneumatic_cost_app"

NoEdit == [op |-> "none"]

\* what st.data_editor(df, num_rows="dynamic") returns
data_editor(df, edit) ==
    IF edit.op = "add" THEN Append(df, edit.row)
    ELSE IF edit.op = "set" THEN [df EXCEPT ![edit.i] = edit.row]
    ELSE IF edit.op = "delete"
    THEN SubSeq(df, 1, edit.i - 1) \o SubSeq(df, edit.i + 1, Len(df))
    ELSE df

\* a faulty script that calculates from the tables st.session_state held
\* before the edit of this run
RerunStale(a, session_state, w, cylinder_edit, servo_edit) ==
    [session_state |->
         [cylinder_df |-> data_editor(session_state.cylinder_df, cylinder_edit),
          servo_df |-> data_editor(session_state.servo_df, servo_edit)],
     widgets |-> w,
     run |-> IF a = Machine
             THEN MachineCalculation(w, session_state.cylinder_df,
                                     session_state.servo_df)
             ELSE PneumaticCalculation(w, session_state.cylinder_df)]

\* the whole script: session state in, session state and bound names out
Rerun(a, session_state, w, cylinder_edit, servo_edit) ==
    LET edited_cylinder_df == data_editor(session_state.cylinder_df, cylinder_edit)
        edited_servo_df == data_editor(session_state.servo_df, servo_edit)
    IN  [session_state |-> [cylinder_df |-> edited_cylinder_df,
                            servo_df |-> edited_servo_df],
         widgets |-> w,
         run |-> IF a = Machine
                 THEN MachineCalculation(w, edited_cylinder_df, edited_servo_df)
                 ELSE PneumaticCalculation(w, edited_cylinder_df)]

\* machine_cost_app.py:38-69: the widgets' defaults
MachineDefaults ==
    [hours_per_day |-> 8, days_per_week |-> 5, electricity_cost |-> Dec(12, 2),
     cycle_rate |-> 5, pressure_bar |-> Dec(60, 1),
     compressor_efficiency |-> Dec(15, 2),
     dump_air |-> TRUE, receiver_liters |-> Bound(10),
     dump_trigger_method |-> Bound(RandomEvents), dumps_per_hour |-> Bound(4)]

\* machine_cost_app.py:14-27
MachineSessionState ==
    [cylinder_df |-> << CylinderRow(2, 160, 600), CylinderRow(2, 50, 200) >>,
     servo_df |-> << ServoRow(1, 1750, 25), ServoRow(1, 1200, 25) >>]

\* pneumatic_cost_app.py:34-52; the script has no safety dump and no servos
PneumaticDefaults ==
    [hours_per_day |-> 8, days_per_week |-> 5, electricity_cost |-> Dec(12, 2),
     cycle_rate |-> 20, pressure_bar |-> Dec(60, 1),
     compressor_efficiency |-> Dec(15, 2),
     dump_air |-> FALSE, receiver_liters |-> Unbound,
     dump_trigger_method |-> Unbound, dumps_per_hour |-> Unbound]

\* pneumatic_cost_app.py:14-20
PneumaticSessionState ==
    [cylinder_df |-> << CylinderRow(2, 50, 200), CylinderRow(4, 25, 100) >>,
     servo_df |-> << >>]

VARIABLES
    app,        \* which script the server runs
    session,    \* per browser session: session_state, widgets, run
    interacted  \* history: the session has been rerun by an interaction

vars == <<app, session, interacted>>

\* the first run of the script in every session
InitApp(a) ==
    /\ app = a
    /\ session = [s \in Sessions |->
                    IF a = Machine
                    THEN Rerun(a, MachineSessionState, MachineDefaults, NoEdit, NoEdit)
                    ELSE Rerun(a, PneumaticSessionState, PneumaticDefaults,
                               NoEdit, NoEdit)]
    /\ interacted = [s \in Sessions |-> FALSE]

InitMachine == InitApp(Machine)

InitPneumatic == InitApp(Pneumatic)

Init == InitMachine \/ InitPneumatic

\* an interaction of session s: the script reruns with widget values w and
\* at most one table edit
Interact(s, w, cylinder_edit, servo_edit) ==
    /\ session' = [session EXCEPT ![s] =
                      Rerun(app, session[s].session_state, w,
                            cylinder_edit, servo_edit)]
    /\ interacted' = [interacted EXCEPT ![s] = TRUE]
    /\ UNCHANGED app

(***************************************************************************)
(* The interactions                                                        *)
(***************************************************************************)
SetHoursPerDay(s) ==
    \E v \in HoursPerDayValues :
        Interact(s, [session[s].widgets EXCEPT !.hours_per_day = v], NoEdit, NoEdit)

SetDaysPerWeek(s) ==
    \E v \in DaysPerWeekValues :
        Interact(s, [session[s].widgets EXCEPT !.days_per_week = v], NoEdit, NoEdit)

SetElectricityCost(s) ==
    \E v \in ElectricityCostValues :
        Interact(s, [session[s].widgets EXCEPT !.electricity_cost = v], NoEdit, NoEdit)

SetCycleRate(s) ==
    \E v \in CycleRateValues :
        Interact(s, [session[s].widgets EXCEPT !.cycle_rate = v], NoEdit, NoEdit)

SetPressureBar(s) ==
    \E v \in PressureBarValues :
        Interact(s, [session[s].widgets EXCEPT !.pressure_bar = v], NoEdit, NoEdit)

SetCompressorEfficiency(s) ==
    \E v \in CompressorEfficiencyValues :
        Interact(s, [session[s].widgets EXCEPT !.compressor_efficiency = v],
                 NoEdit, NoEdit)

\* machine_cost_app.py:62-69: the toggle; the three widgets below it exist,
\* and their names are bound, only while it is on, and start from their
\* defaults when it is switched on
ToggleDumpAir(s) ==
    /\ app = Machine
    /\ IF session[s].widgets.dump_air
       THEN Interact(s, [session[s].widgets EXCEPT
                            !.dump_air = FALSE, !.receiver_liters = Unbound,
                            !.dump_trigger_method = Unbound,
                            !.dumps_per_hour = Unbound], NoEdit, NoEdit)
       ELSE Interact(s, [session[s].widgets EXCEPT
                            !.dump_air = TRUE, !.receiver_liters = Bound(10),
                            !.dump_trigger_method = Bound(RandomEvents),
                            !.dumps_per_hour = Bound(4)], NoEdit, NoEdit)

\* line 64
SetReceiverLiters(s) ==
    /\ app = Machine
    /\ session[s].widgets.dump_air
    /\ \E v \in ReceiverLitersValues :
        Interact(s, [session[s].widgets EXCEPT !.receiver_liters = Bound(v)],
                 NoEdit, NoEdit)

\* lines 65-69: the radio; line 69 sets dumps_per_hour = 0 for every cycle,
\* and the number input of line 67 appears with its default otherwise
SetDumpTriggerMethod(s) ==
    /\ app = Machine
    /\ session[s].widgets.dump_air
    /\ \E m \in {RandomEvents, EveryCycle} :
        /\ session[s].widgets.dump_trigger_method # Bound(m)
        /\ Interact(s, [session[s].widgets EXCEPT
                           !.dump_trigger_method = Bound(m),
                           !.dumps_per_hour = IF m = RandomEvents
                                              THEN Bound(4) ELSE Bound(0)],
                    NoEdit, NoEdit)

\* line 67
SetDumpsPerHour(s) ==
    /\ app = Machine
    /\ session[s].widgets.dump_air
    /\ session[s].widgets.dump_trigger_method = Bound(RandomEvents)
    /\ \E v \in DumpsPerHourValues :
        Interact(s, [session[s].widgets EXCEPT !.dumps_per_hour = Bound(v)],
                 NoEdit, NoEdit)

\* machine_cost_app.py:58, pneumatic_cost_app.py:59: one edit of the table
AddCylinderRow(s, rows) ==
    /\ Len(session[s].session_state.cylinder_df) < MaxRows
    /\ \E r \in rows :
        Interact(s, session[s].widgets, [op |-> "add", row |-> r], NoEdit)

SetCylinderRow(s, rows) ==
    \E i \in 1..Len(session[s].session_state.cylinder_df), r \in rows :
        Interact(s, session[s].widgets, [op |-> "set", i |-> i, row |-> r], NoEdit)

DeleteCylinderRow(s) ==
    \E i \in 1..Len(session[s].session_state.cylinder_df) :
        Interact(s, session[s].widgets, [op |-> "delete", i |-> i], NoEdit)

\* machine_cost_app.py:74
AddServoRow(s, rows) ==
    /\ app = Machine
    /\ Len(session[s].session_state.servo_df) < MaxRows
    /\ \E r \in rows :
        Interact(s, session[s].widgets, NoEdit, [op |-> "add", row |-> r])

SetServoRow(s, rows) ==
    /\ app = Machine
    /\ \E i \in 1..Len(session[s].session_state.servo_df), r \in rows :
        Interact(s, session[s].widgets, NoEdit, [op |-> "set", i |-> i, row |-> r])

DeleteServoRow(s) ==
    /\ app = Machine
    /\ \E i \in 1..Len(session[s].session_state.servo_df) :
        Interact(s, session[s].widgets, NoEdit, [op |-> "delete", i |-> i])

(***************************************************************************)
(* Specifications.  The product of all inputs is too large to enumerate,   *)
(* so each specification lets the user work a part of the page and leaves  *)
(* the other widgets at their defaults.                                    *)
(***************************************************************************)
\* both tables, the dump toggle and the operating schedule
Next ==
    \/ SetHoursPerDay(1)
    \/ SetDaysPerWeek(1)
    \/ ToggleDumpAir(1)
    \/ SetCylinderRow(1, FewCylinderRows)
    \/ DeleteCylinderRow(1)
    \/ SetServoRow(1, FewServoRows)
    \/ DeleteServoRow(1)

Spec == Init /\ [][Next]_vars

\* the cylinder table and the pressure, both scripts
NextActuation ==
    \/ SetPressureBar(1)
    \/ AddCylinderRow(1, CylinderRowChoices)
    \/ SetCylinderRow(1, CylinderRowChoices)
    \/ DeleteCylinderRow(1)

SpecActuation == Init /\ [][NextActuation]_vars

\* the safety dump and the parameters of its cost
NextWaste ==
    \/ SetCycleRate(1)
    \/ SetPressureBar(1)
    \/ SetCompressorEfficiency(1)
    \/ SetElectricityCost(1)
    \/ ToggleDumpAir(1)
    \/ SetReceiverLiters(1)
    \/ SetDumpTriggerMethod(1)
    \/ SetDumpsPerHour(1)

SpecWaste == InitMachine /\ [][NextWaste]_vars

\* the cylinder table, the safety dump and the pressure
NextPneumatic ==
    \/ SetPressureBar(1)
    \/ AddCylinderRow(1, FewCylinderRows)
    \/ SetCylinderRow(1, FewCylinderRows)
    \/ DeleteCylinderRow(1)
    \/ ToggleDumpAir(1)
    \/ SetReceiverLiters(1)
    \/ SetDumpTriggerMethod(1)
    \/ SetDumpsPerHour(1)

SpecPneumatic == InitMachine /\ [][NextPneumatic]_vars

\* the servo table and the electricity price
NextServo ==
    \/ SetElectricityCost(1)
    \/ AddServoRow(1, ServoRowChoices)
    \/ SetServoRow(1, ServoRowChoices)
    \/ DeleteServoRow(1)

SpecServo == InitMachine /\ [][NextServo]_vars

\* two browser sessions of one script, each with its own st.session_state
NextTwoSessions ==
    \E s \in Sessions :
        \/ ToggleDumpAir(s)
        \/ SetCylinderRow(s, FewCylinderRows)
        \/ DeleteCylinderRow(s)

SpecTwoSessions == Init /\ [][NextTwoSessions]_vars

(***************************************************************************)
(* Properties.  Run(s) is what the latest run of session s has bound,      *)
(* Widgets(s) and Tables(s) are the inputs it ran on.                      *)
(***************************************************************************)
Run(s) == session[s].run

Widgets(s) == session[s].widgets

Tables(s) == session[s].session_state

\* C1: the totals of every run form the chain
\*   hourly = actuation + waste + servo, daily = hourly * hours_per_day,
\*   weekly = daily * days_per_week, annual = weekly * 52,
\* so annual = hourly * (hours_per_day * days_per_week * 52); in the
\* pneumatic script the chain starts from the one hourly cost.
C1_TotalsChain ==
    \A s \in Sessions :
        IF app = Machine
        THEN ~Run(s).raised =>
             /\ Eq(Run(s).cost_per_hour_total,
                   Add[Run(s).cost_per_hour_pneumatic_actuation,
                       Add[Run(s).cost_per_hour_pneumatic_waste,
                           Run(s).cost_per_hour_servo]])
             /\ Eq(Run(s).cost_per_day_total,
                   Mul[Num(Widgets(s).hours_per_day), Run(s).cost_per_hour_total])
             /\ Eq(Run(s).cost_per_week_total,
                   Mul[Num(Widgets(s).days_per_week), Run(s).cost_per_day_total])
             /\ Eq(Run(s).cost_per_year_total,
                   Mul[Num(52), Run(s).cost_per_week_total])
             /\ Eq(Run(s).cost_per_year_total,
                   Mul[Run(s).cost_per_hour_total,
                       Num(Widgets(s).hours_per_day * Widgets(s).days_per_week * 52)])
        ELSE /\ Eq(Run(s).cost_per_day,
                   Mul[Num(Widgets(s).hours_per_day), Run(s).cost_per_hour])
             /\ Eq(Run(s).cost_per_week,
                   Mul[Num(Widgets(s).days_per_week), Run(s).cost_per_day])
             /\ Eq(Run(s).cost_per_year, Mul[Num(52), Run(s).cost_per_week])
             /\ Eq(Run(s).cost_per_year,
                   Mul[Run(s).cost_per_hour,
                       Num(Widgets(s).hours_per_day * Widgets(s).days_per_week * 52)])

\* a run of the machine script after an interaction in which the three
\* subsystems all cost something
AllSubsystemsCost(s) ==
    /\ app = Machine
    /\ interacted[s]
    /\ ~Run(s).raised
    /\ Positive(Run(s).cost_per_hour_pneumatic_actuation)
    /\ Positive(Run(s).cost_per_hour_pneumatic_waste)
    /\ Positive(Run(s).cost_per_hour_servo)

C1_Witness ==
    /\ AllSubsystemsCost(1)
    /\ Widgets(1).hours_per_day = 24
    /\ Widgets(1).days_per_week = 7

\* the table of lines 161-166 as the latest run of session s builds it
BreakdownOf(s) ==
    BreakdownData(Run(s).cost_per_hour_pneumatic_actuation,
                  Run(s).cost_per_hour_pneumatic_waste,
                  Run(s).cost_per_hour_servo, Run(s),
                  Widgets(s).hours_per_day, Widgets(s).days_per_week)

\* C2: in the breakdown table of machine_cost_app, in each of the rows
\* Hourly, Daily, Weekly, Annual, the entries Pneumatic Actuation +
\* Pneumatic Waste + Servos sum to the entry Total.
C2_BreakdownRowsSumToTotal ==
    \A s \in Sessions :
        (app = Machine /\ ~Run(s).raised) =>
            \A period \in 1..4 :
                Eq(Add[Add[BreakdownOf(s).Pneumatic_Actuation[period],
                           BreakdownOf(s).Pneumatic_Waste[period]],
                       BreakdownOf(s).Servos[period]],
                   BreakdownOf(s).Total[period])

C2_Witness ==
    /\ AllSubsystemsCost(1)
    /\ Widgets(1).hours_per_day = 24
    /\ Widgets(1).days_per_week = 5
    /\ Len(Tables(1).cylinder_df) = 1

\* C9: with the positive parameters the widgets deliver, whatever the rows
\* of the tables hold (zero and negative cells included), no hourly cost
\* of a subsystem and no total is negative.
C9_CostsNonNegative ==
    \A s \in Sessions :
        IF app = Machine
        THEN ~Run(s).raised =>
             /\ NonNegative(Run(s).cost_per_hour_pneumatic_actuation)
             /\ NonNegative(Run(s).cost_per_hour_pneumatic_waste)
             /\ NonNegative(Run(s).cost_per_hour_servo)
             /\ NonNegative(Run(s).cost_per_hour_total)
             /\ NonNegative(Run(s).cost_per_day_total)
             /\ NonNegative(Run(s).cost_per_week_total)
             /\ NonNegative(Run(s).cost_per_year_total)
        ELSE /\ NonNegative(Run(s).cost_per_hour)
             /\ NonNegative(Run(s).cost_per_day)
             /\ NonNegative(Run(s).cost_per_week)
             /\ NonNegative(Run(s).cost_per_year)

\* both tables hold a row with a negative quantity beside a valid row
C9_Witness ==
    /\ app = Machine
    /\ ~Run(1).raised
    /\ \E i \in 1..Len(Tables(1).cylinder_df) : Tables(1).cylinder_df[i].Quantity < 0
    /\ \E i \in 1..Len(Tables(1).servo_df) : Tables(1).servo_df[i].Quantity < 0
    /\ Positive(Run(1).cost_per_hour_pneumatic_actuation)
    /\ Positive(Run(1).cost_per_hour_servo)

\* the hourly cost of actuating the cylinders in the latest run of session s
ActuationCost(s) ==
    IF app = Machine
    THEN Run(s).cost_per_hour_pneumatic_actuation
    ELSE Run(s).cost_per_hour

\* the same cost as the script of session s computes it from the table rows
ActuationCostOf(s, rows) ==
    IF app = Machine
    THEN PneumaticActuationCalculation(rows, Widgets(s).pressure_bar,
             Widgets(s).cycle_rate, Widgets(s).compressor_efficiency,
             Widgets(s).electricity_cost)
    ELSE PnCostPerHour(rows, Widgets(s).pressure_bar, Widgets(s).cycle_rate,
             Widgets(s).compressor_efficiency, Widgets(s).electricity_cost)

ExcludedCylinderRow(row) ==
    row.Quantity <= 0 \/ row.Bore_mm <= 0 \/ row.Stroke_mm <= 0

KeptCylinderRow(row) == ~ExcludedCylinderRow(row)

\* C3: in both scripts a cylinder row with quantity <= 0 or bore <= 0 or
\* stroke <= 0 adds nothing to the hourly actuation cost: the cost of a
\* table is the cost of the table without such rows (zero when no row is
\* left), and the run raises no error.
C3_ExcludedRowsContributeZero ==
    \A s \in Sessions :
        /\ ~Run(s).raised
        /\ Eq(ActuationCost(s),
              ActuationCostOf(s, SelectSeq(Tables(s).cylinder_df, KeptCylinderRow)))
        /\ (\A i \in 1..Len(Tables(s).cylinder_df) :
                ExcludedCylinderRow(Tables(s).cylinder_df[i]))
           => IsZero(ActuationCost(s))

\* a table with a counted row and a row excluded for its bore alone
C3_Witness ==
    /\ interacted[1]
    /\ Len(Tables(1).cylinder_df) = 2
    /\ KeptCylinderRow(Tables(1).cylinder_df[1])
    /\ Tables(1).cylinder_df[2].Quantity > 0
    /\ Tables(1).cylinder_df[2].Bore_mm < 0
    /\ Tables(1).cylinder_df[2].Stroke_mm > 0
    /\ Positive(ActuationCost(1))

\* every hourly cost of the latest run of session s is zero
BreakdownAllZero(s) ==
    IF app = Machine
    THEN /\ IsZero(Run(s).cost_per_hour_pneumatic_actuation)
         /\ IsZero(Run(s).cost_per_hour_pneumatic_waste)
         /\ IsZero(Run(s).cost_per_hour_servo)
    ELSE IsZero(Run(s).cost_per_hour)

\* C10: in both scripts a run whose hourly costs are all zero shows the
\* warning instead of the cost results, and no run raises an error.
C10_ZeroBreakdownShowsWarning ==
    \A s \in Sessions :
        /\ ~Run(s).raised
        /\ BreakdownAllZero(s) => Run(s).shown = "warning"

\* the pressures a run is compared with
ComparedPressures == PressureBarValues \cup {Dec(100, 1)}

WasteCostAt(s, pressure_bar) ==
    PneumaticWasteCalculation(Widgets(s).dump_air, Widgets(s).receiver_liters,
        Widgets(s).dump_trigger_method, Widgets(s).dumps_per_hour, pressure_bar,
        Widgets(s).cycle_rate, Widgets(s).compressor_efficiency,
        Widgets(s).electricity_cost).cost

HasCountedCylinder(s) ==
    \E i \in 1..Len(Tables(s).cylinder_df) : KeptCylinderRow(Tables(s).cylinder_df[i])

\* the dump is on, the receiver holds air and air is dumped at least once
\* an hour (cycle_rate is at least 1)
WasteAirPositive(s) ==
    /\ Widgets(s).dump_air
    /\ Widgets(s).receiver_liters[1] > 0
    /\ \/ Widgets(s).dump_trigger_method = Bound(EveryCycle)
       \/ Widgets(s).dumps_per_hour[1] > 0

\* C7: with everything else as in the run, a higher pressure_bar gives a
\* strictly higher hourly actuation cost when a cylinder row is counted,
\* and a strictly higher hourly waste cost when air is dumped.
C7_PressureStrictlyIncreasesCost ==
    \A s \in Sessions :
        (app = Machine /\ ~Run(s).raised) =>
            \A p \in ComparedPressures :
                Less(Widgets(s).pressure_bar, p) =>
                    /\ HasCountedCylinder(s) =>
                           Less(Run(s).cost_per_hour_pneumatic_actuation,
                                PneumaticActuationCalculation(
                                    Tables(s).cylinder_df, p, Widgets(s).cycle_rate,
                                    Widgets(s).compressor_efficiency,
                                    Widgets(s).electricity_cost))
                    /\ WasteAirPositive(s) =>
                           Less(Run(s).cost_per_hour_pneumatic_waste, WasteCostAt(s, p))

C7_Witness ==
    /\ app = Machine
    /\ interacted[1]
    /\ Widgets(1).pressure_bar = Dec(10, 1)
    /\ HasCountedCylinder(1)
    /\ \E i \in 1..Len(Tables(1).cylinder_df) :
            ExcludedCylinderRow(Tables(1).cylinder_df[i])
    /\ WasteAirPositive(1)
    /\ Widgets(1).dump_trigger_method = Bound(EveryCycle)

\* the waste calculation of session s with another trigger mode and
\* another number of dumps: [raised, cost]
WasteWith(s, dump_trigger_method, dumps_per_hour) ==
    PneumaticWasteCalculation(Widgets(s).dump_air, Widgets(s).receiver_liters,
        Bound(dump_trigger_method), Bound(dumps_per_hour),
        Widgets(s).pressure_bar, Widgets(s).cycle_rate,
        Widgets(s).compressor_efficiency, Widgets(s).electricity_cost)

\* the numbers of dumps a run is compared with
ComparedDumpsPerHour == DumpsPerHourValues \cup {120}

\* C4: with the dump on, a receiver volume > 0 and the mode "After every
\* machine cycle", the hourly waste cost is
\*   (receiver_liters / 1000) * (pressure_bar + 1) * cycle_rate * 60
\*       * compressor_efficiency * electricity_cost,
\* whatever dumps_per_hour is.
C4_EveryCycleUsesCycleRate ==
    \A s \in Sessions :
        (/\ app = Machine
         /\ Widgets(s).dump_air
         /\ Widgets(s).receiver_liters[1] > 0
         /\ Widgets(s).dump_trigger_method = Bound(EveryCycle)) =>
            /\ ~Run(s).raised
            /\ Eq(Run(s).cost_per_hour_pneumatic_waste,
                  Mul[Div1000(Num(Widgets(s).receiver_liters[1])),
                      Mul[Add[Widgets(s).pressure_bar, Num(1)],
                          Mul[Num(Widgets(s).cycle_rate * 60),
                              Mul[Widgets(s).compressor_efficiency,
                                  Widgets(s).electricity_cost]]]])
            /\ \A d \in ComparedDumpsPerHour :
                   Eq(WasteWith(s, EveryCycle, d).cost,
                      Run(s).cost_per_hour_pneumatic_waste)

C4_Witness ==
    /\ app = Machine
    /\ interacted[1]
    /\ Widgets(1).dump_air
    /\ Widgets(1).receiver_liters = Bound(10)
    /\ Widgets(1).dump_trigger_method = Bound(EveryCycle)
    /\ Widgets(1).cycle_rate = 20
    /\ Widgets(1).pressure_bar = Dec(65, 1)
    /\ Positive(Run(1).cost_per_hour_pneumatic_waste)

\* C5: with the dump off, or with a receiver volume <= 0, the run raises
\* no error and the hourly waste cost is 0, for every trigger mode, number
\* of dumps, pressure, cycle rate, efficiency and price; with the dump off
\* the three dump widgets do not exist and their names are not read.
C5_NoDumpNoWaste ==
    \A s \in Sessions :
        (/\ app = Machine
         /\ (~Widgets(s).dump_air \/ Widgets(s).receiver_liters[1] <= 0)) =>
            /\ ~Run(s).raised
            /\ IsZero(Run(s).cost_per_hour_pneumatic_waste)
            /\ \A m \in {RandomEvents, EveryCycle}, d \in ComparedDumpsPerHour :
                   /\ ~WasteWith(s, m, d).raised
                   /\ IsZero(WasteWith(s, m, d).cost)

C5_Witness ==
    /\ app = Machine
    /\ interacted[1]
    /\ ~Widgets(1).dump_air
    /\ Widgets(1).receiver_liters = Unbound
    /\ Widgets(1).dumps_per_hour = Unbound
    /\ Widgets(1).cycle_rate = 20
    /\ ~Run(1).raised

\* the sum of line 114 in hundredths of a watt, over the rows the claim
\* counts: power_watts * utilization_pct * quantity
RECURSIVE CountedServoCentiwatts(_)
CountedServoCentiwatts(rows) ==
    IF rows = <<>>
    THEN 0
    ELSE (IF /\ Head(rows).Quantity > 0
             /\ Head(rows).Motor_Power_Watts > 0
             /\ Head(rows).Avg_Power_Utilization_pct >= 0
          THEN Head(rows).Motor_Power_Watts * Head(rows).Avg_Power_Utilization_pct
                   * Head(rows).Quantity
          ELSE 0)
         + CountedServoCentiwatts(Tail(rows))

\* C6: the hourly servo cost is electricity_cost * (sum over the rows with
\* quantity > 0, power > 0 and utilization >= 0 of power * utilization / 100
\* * quantity) / 1000; rows with quantity <= 0 or power <= 0 add nothing,
\* and a row with utilization 0 is counted and adds nothing.
C6_ServoCostFormula ==
    \A s \in Sessions :
        app = Machine =>
            /\ ~Run(s).raised
            /\ Eq(Run(s).cost_per_hour_servo,
                  Mul[Widgets(s).electricity_cost,
                      Div1000(Dec(CountedServoCentiwatts(Tables(s).servo_df), 2))])

\* a counted row, a row of utilization 0 and a price that is not the default
C6_Witness ==
    /\ app = Machine
    /\ interacted[1]
    /\ Len(Tables(1).servo_df) = 2
    /\ Tables(1).servo_df[1] = ServoRow(1, 750, 40)
    /\ Tables(1).servo_df[2] = ServoRow(3, 750, 0)
    /\ Widgets(1).electricity_cost = Dec(100, 2)
    /\ Eq(Run(1).cost_per_hour_servo, Dec(3, 1))

\* C8: two sessions whose latest runs had the same tables and the same
\* widget values show the same results, whatever was edited before: a run
\* reads st.session_state only as the table the editor starts from.
C8_ResultDependsOnCurrentInputsOnly ==
    \A s \in Sessions, t \in Sessions :
        (Tables(s) = Tables(t) /\ Widgets(s) = Widgets(t)) => Run(s) = Run(t)

\* session 1 has edited its table and switched the dump, session 2 has
\* only just opened the page, and both now hold the same inputs
C8_Witness ==
    /\ interacted[1]
    /\ ~interacted[2]
    /\ Tables(1) = Tables(2)
    /\ Widgets(1) = Widgets(2)
====
